---- MODULE Spec2Model ----
(***************************************************************************)
(* SLAMpy direct-discharge tools: IndustryV2, WastewaterV2 and WastewaterV1 *)
(* (src/SLAMpy/_DirectIndustry.py, src/SLAMpy/_DirectWastewater.py).        *)
(*                                                                          *)
(* One behaviour is one run: either execute of a tool, or a direct call of  *)
(* its geoprocessing function.  Every vendor call (Select, Intersect,       *)
(* SpatialJoin, DeleteIdentical, AddField, CalculateField, Delete) is one   *)
(* step; it is appended to the log `calls` and acts on the geodatabase      *)
(* `gdb`.  Strings that the code builds (paths, field names) are sequences  *)
(* of tokens, so that sep.join and str.format are concatenations.  Numbers  *)
(* are exact rationals [n, d]; None / NULL is the record with d = 0.        *)
(***************************************************************************)
EXTENDS Integers, Sequences, FiniteSets, TLC

(* ------------------------------------------------------------------ *)
(* Bounds of the model                                                  *)
(* ------------------------------------------------------------------ *)

\* Largest number of features a spatial join / intersect keeps.
MaxRows == 2

\* Largest number of rows of a factor table.
MaxFactorRows == 2

(* ------------------------------------------------------------------ *)
(* Numbers                                                              *)
(* ------------------------------------------------------------------ *)

Abs(x) == IF x < 0 THEN -x ELSE x

RECURSIVE GCD(_, _)
GCD(a, b) == IF b = 0 THEN a ELSE GCD(b, a % b)

\* The number n/d (d # 0), in lowest terms with a positive denominator.
Rat(n, d) ==
    LET g == GCD(Abs(n), Abs(d))
        s == IF d < 0 THEN -1 ELSE 1
    IN  IF d = 0 THEN [n |-> 0, d |-> 0]
        ELSE [n |-> (s * n) \div g, d |-> (s * d) \div g]

Num(k) == [n |-> k, d |-> 1]

\* Python's None, and a NULL cell of a table (arithmetic on it yields it).
NoneVal == [n |-> 0, d |-> 0]

IsNum(x) == x.d # 0

Mul(a, b) == Rat(a.n * b.n, a.d * b.d)

Div(a, b) == Rat(a.n * b.d, a.d * b.n)

Sub(a, b) == Rat(a.n * b.d - b.n * a.d, a.d * b.d)

Gt(a, b) == a.n * b.d > b.n * a.d

Lt(a, b) == Gt(b, a)

\* Python's max over a non-empty list of numbers: the first largest element.
RECURSIVE MaxOf(_)
MaxOf(s) ==
    IF Len(s) = 1 THEN s[1]
    ELSE LET m == MaxOf(Tail(s))
         IN  IF Gt(m, s[1]) THEN m ELSE s[1]

RECURSIVE Pow10(_)
Pow10(k) == IF k = 0 THEN 1 ELSE 10 * Pow10(k - 1)

\* The digits after the decimal point of r/d (0 <= r < d), by long division.
RECURSIVE FracDigits(_, _)
FracDigits(r, d) ==
    IF r = 0 THEN <<>>
    ELSE <<(r * 10) \div d>> \o FracDigits((r * 10) % d, d)

\* '{}'.format(x) of a float or of None: the decimal literal that is pasted
\* into a code block.  A float always shows a fractional part ("12.0").
\* The numbers of the sample tables are short decimals, which str renders
\* digit for digit.
FormatFloat(x) ==
    IF ~IsNum(x) THEN [none |-> TRUE, neg |-> FALSE, int |-> 0, frac |-> <<>>]
    ELSE LET a == Abs(x.n)
             f == FracDigits(a % x.d, x.d)
         IN  [none |-> FALSE, neg |-> x.n < 0, int |-> a \div x.d,
              frac |-> IF f = <<>> THEN <<0>> ELSE f]

RECURSIVE DigitsValue(_)
DigitsValue(ds) ==
    IF ds = <<>> THEN 0 ELSE 10 * DigitsValue(SubSeq(ds, 1, Len(ds) - 1)) + ds[Len(ds)]

\* The value of a decimal literal (or of the name None) in a code block.
EvalLiteral(lit) ==
    IF lit.none THEN NoneVal
    ELSE LET p == Pow10(Len(lit.frac))
             m == lit.int * p + DigitsValue(lit.frac)
         IN  Rat(IF lit.neg THEN -m ELSE m, p)

(* ------------------------------------------------------------------ *)
(* Strings                                                              *)
(* ------------------------------------------------------------------ *)

\* os.sep
Sep == "/"

\* sep.join([a, b])
SepJoin(a, b) == a \o <<Sep>> \o b

\* An optional string parameter: None, or a string (possibly empty).
NoneStr == [some |-> FALSE, val |-> <<>>]

Str(s) == [some |-> TRUE, val |-> s]

\* Python truth of an optional string: None and '' are false.
Truthy(x) == x.some /\ x.val # <<>>

(* ------------------------------------------------------------------ *)
(* Tables and feature classes                                           *)
(* ------------------------------------------------------------------ *)

\* A field name that is a plain literal.
F(name) == <<name>>

\* The rows of s whose index is in S, in the order of s.
RECURSIVE KeepFrom(_, _, _)
KeepFrom(s, S, i) ==
    IF i > Len(s) THEN <<>>
    ELSE (IF i \in S THEN <<s[i]>> ELSE <<>>) \o KeepFrom(s, S, i + 1)

\* What a spatial join (KEEP_COMMON, JOIN_ONE_TO_ONE) or an intersect can
\* keep of the features of `rows`: the geometry decides, so any sub-list of
\* at most MaxRows features.
Matched(rows) ==
    {KeepFrom(rows, S, 1) : S \in {T \in SUBSET (1 .. Len(rows)) : Cardinality(T) <= MaxRows}}

\* AddField_management: the new field is NULL in every row.
AddFieldRows(rows, field) ==
    [i \in 1 .. Len(rows) |-> (field :> NoneVal) @@ rows[i]]

\* CalculateField_management: the field of row i becomes vals[i], the value
\* of the expression for that row.
CalculateRows(rows, field, vals) ==
    [i \in 1 .. Len(rows) |-> [rows[i] EXCEPT ![field] = vals[i]]]

\* DeleteIdentical_management on one field: of the rows with the same value
\* of the field, the first is kept.
RECURSIVE DeleteIdenticalRows(_, _)
DeleteIdenticalRows(rows, field) ==
    IF rows = <<>> THEN <<>>
    ELSE LET n    == Len(rows)
             init == DeleteIdenticalRows(SubSeq(rows, 1, n - 1), field)
         IN  IF \E j \in 1 .. n - 1 : rows[j][field] = rows[n][field]
             THEN init
             ELSE Append(init, rows[n])

\* Select_analysis with the where clause of the sample selection.
SelectRows(rows, clause) ==
    SelectSeq(rows, LAMBDA r : r[F("RegionID")] = Num(1))

\* The geodatabase g with feature class p (re)written.
Put(g, p, rows) ==
    [q \in DOMAIN g \cup {p} |-> IF q = p THEN rows ELSE g[q]]

\* The geodatabase g without feature class p.
Remove(g, p) == [q \in DOMAIN g \ {p} |-> g[q]]

\* One vendor call, as logged.
Call(op, src, fc, field) == [op |-> op, src |-> src, fc |-> fc, field |-> field]

(* ------------------------------------------------------------------ *)
(* Sample inputs                                                        *)
(* ------------------------------------------------------------------ *)

OutGdb == <<"output.gdb">>

ProjectName == <<"proj">>

Region == <<"input.gdb", Sep, "Region">>

RegionFeatures ==
    <<(F("RegionID") :> Num(1)), (F("RegionID") :> Num(2))>>

\* The values of the nutrient parameter: the two of the value list, and the
\* one the docstring of IndustryV2.execute names.
NutrientChoices == {"Nitrogen (N)", "Phosphorus (P)", "Nitrogen (P)"}

Selections == {NoneStr, Str(<<>>), Str(<<"RegionID = 1">>)}

InIpc == <<"input.gdb", Sep, "IPPC_Discharge">>

InSect4 == <<"input.gdb", Sep, "Sect4_Discharge">>

InAgglo == <<"input.gdb", Sep, "SLAM_Agglom15_March17_IsMain">>

InWwtp == <<"input.gdb", Sep, "LAM_Agglom_Nov15">>

InFactorsN == <<"in", Sep, "LAM_Factors.xlsx", Sep, "UWWTP_N$">>

InFactorsP == <<"in", Sep, "LAM_Factors.xlsx", Sep, "UWWTP_P$">>

\* Output paths a caller of a geoprocessing function may supply.
OutChoices(name) == {NoneStr, Str(<<>>), Str(<<"custom.gdb", Sep, name>>)}

IpcFeatures ==
    <<(<<"N", "_2012_LAM">> :> Num(12)) @@ (<<"P", "_2012_LAM">> :> Rat(3, 2)),
      (<<"N", "_2012_LAM">> :> Num(0))  @@ (<<"P", "_2012_LAM">> :> Num(7))>>

NElvFields == <<"TON_ELV", "TN_ELV", "NO3_ELV", "NH3_ELV", "NH4_ELV", "NO2_ELV">>

\* Section 4 licence i: each of the six nitrogen limits is the largest in one
\* licence, the phosphorus limits are larger still, and the measured flow is
\* missing (0) in every second licence.
Sect4Feature(i) ==
    (F("Flow__m3_d") :> (IF i % 2 = 1 THEN Num(i) ELSE Num(0)))
    @@ (F("Discharge_") :> Rat(10 + i, 4))
    @@ [f \in {F(NElvFields[j]) : j \in 1 .. 6} |->
          LET j == CHOOSE k \in 1 .. 6 : F(NElvFields[k]) = f
          IN  IF j = i THEN Num(20 + i) ELSE Rat(j, 2)]
    @@ (F("TP_ELV") :> (IF i % 2 = 0 THEN Num(30 + i) ELSE Num(2)))
    @@ (F("PO4_ELV") :> (IF i % 2 = 0 THEN Num(3) ELSE Num(40 + i)))

Sect4Features == [i \in 1 .. 6 |-> Sect4Feature(i)]

AggloFeatures ==
    <<(<<"T", "N", "_SWO">> :> Num(5)) @@ (<<"T", "P", "_SWO">> :> Rat(1, 2))
        @@ (<<"PointT", "N">> :> Num(40)) @@ (<<"PointT", "P">> :> Num(6)),
      (<<"T", "N", "_SWO">> :> Num(0)) @@ (<<"T", "P", "_SWO">> :> Num(2))
        @@ (<<"PointT", "N">> :> Num(11)) @@ (<<"PointT", "P">> :> Num(0))>>

Treatments ==
    <<"0 - No Treatment", "0 - Preliminary Treatment", "1 - Primary Treatment",
      "2 - Secondary Treatment", "3N - Tertiary N Removal",
      "3NP - Tertiary N&P Removal", "3P - Tertiary P Removal", "Secondary",
      "4 - Unknown">>

PEPairs == <<<<Num(2), Num(5)>>, <<Num(7), Num(5)>>, <<Num(1), Num(5)>>,
             <<Num(0), Num(3)>>, <<Num(1), Num(0)>>>>

WwtpAerPairs == <<<<Num(2), Num(0)>>, <<Num(0), Num(3)>>, <<Num(1), Num(1)>>,
                  <<Rat(3, 2), Rat(1, 2)>>>>

SwoAerPairs == <<<<Num(0), Num(1)>>, <<Rat(1, 20), Rat(1, 10)>>, <<Num(1), Num(0)>>>>

\* Agglomeration i of the WastewaterV1 input: the nine treatment levels in
\* turn, with the population and AER cases cycling; the tenth repeats the
\* RegCD of the first.
WwtpFeature(i) ==
    (F("RegCD") :> (IF i = 10 THEN Num(1) ELSE Num(i)))
    @@ (F("TreatmentL") :> Treatments[((i - 1) % 9) + 1])
    @@ (F("AER14_PE") :> PEPairs[((i - 1) % 5) + 1][1])
    @@ (F("LEMA_PE") :> PEPairs[((i - 1) % 5) + 1][2])
    @@ (<<"N", "_WWTP_AER">> :> WwtpAerPairs[((i - 1) % 4) + 1][1])
    @@ (<<"P", "_WWTP_AER">> :> WwtpAerPairs[((i - 1) % 4) + 1][2])
    @@ (<<"N", "_SWO_AER">> :> SwoAerPairs[((i - 1) % 3) + 1][1])
    @@ (<<"P", "_SWO_AER">> :> SwoAerPairs[((i - 1) % 3) + 1][2])
    @@ (F("PE") :> Num(4 + (i % 2)))
    @@ (F("LOSS_perce") :> Rat(1 + (i % 2), 10))

WwtpFeatures == [i \in 1 .. 10 |-> WwtpFeature(i)]

FactorNames == {<<"N", "_factors">>, <<"P", "_factors">>, <<"BOD", "_factors">>}

\* Row k of a factor table: every factor differs from every other factor of
\* the row and from the same factor of every other row.
FactorRow(name, k) ==
    [FactorName |-> name,
     raw       |-> Rat(100 - k, 100),
     prelim    |-> Rat(95 - k, 100),
     primary   |-> Rat(80 - k, 100),
     second    |-> Rat(50 - k, 100),
     tertN     |-> Rat(30 - k, 100),
     tertNP    |-> Rat(20 - k, 100),
     tertP     |-> Rat(40 - k, 100),
     POPfactor |-> Num(9 + k)]

\* The factor tables a SearchCursor may read: up to MaxFactorRows rows.
FactorTables ==
    UNION {{[k \in 1 .. n |-> FactorRow(names[k], k)] : names \in [1 .. n -> FactorNames]}
           : n \in 0 .. MaxFactorRows}

(* ------------------------------------------------------------------ *)
(* The expressions and code blocks of the field calculations            *)
(* ------------------------------------------------------------------ *)

\* Variant of NutrientCode with the two codes exchanged.
NutrientCodeSwapped(text) == IF text = "Nitrogen (N)" THEN "P" ELSE "N"

\* 'N' if nutrient == 'Nitrogen (N)' else 'P'
NutrientCode(text) == IF text = "Nitrogen (N)" THEN "N" ELSE "P"

\* Variant of SelectionRequested that tests `is not None` instead of truth.
SelectionNotNone(sel) == sel.some

\* if selection: ... (a selection was requested)
SelectionRequested(sel) == Truthy(sel)

\* sep.join([out_gdb, project_name + '_SelectedRegion'])
SelectedRegionPath(out_gdb, project_name) ==
    SepJoin(out_gdb, project_name \o <<"_SelectedRegion">>)

\* Variant of OutputPath that leaves the nutrient code out of the default name.
OutputPathNoNutrient(out, out_gdb, project_name, nut, suffix) ==
    IF ~Truthy(out)
    THEN Str(SepJoin(out_gdb, project_name \o <<suffix>>))
    ELSE out

\* if not out: out = sep.join([out_gdb, project_name + '_{}_<suffix>'.format(nutrient)])
OutputPath(out, out_gdb, project_name, nut, suffix) ==
    IF ~Truthy(out)
    THEN Str(SepJoin(out_gdb, project_name \o <<"_", nut, suffix>>))
    ELSE out

\* "!{}_2012_LAM!".format(nutrient)
IPPC_calc(nut, row) == row[<<nut, "_2012_LAM">>]

\* if !Flow__m3_d! > 0: flow = !Flow__m3_d!  else: flow = !Discharge_!
Sect4_Flow(row) ==
    IF Gt(row[F("Flow__m3_d")], Num(0)) THEN row[F("Flow__m3_d")] ELSE row[F("Discharge_")]

\* Variant of Sect4_ELV that takes the largest of all eight limits.
Sect4_ELV_AllLimits(nut, row) ==
    MaxOf(<<row[F("TON_ELV")], row[F("TN_ELV")], row[F("NO3_ELV")],
            row[F("NH3_ELV")], row[F("NH4_ELV")], row[F("NO2_ELV")],
            row[F("TP_ELV")], row[F("PO4_ELV")]>>)

\* elv = float(max([...])) over the limits of the nutrient
Sect4_ELV(nut, row) ==
    IF nut = "N"
    THEN MaxOf(<<row[F("TON_ELV")], row[F("TN_ELV")], row[F("NO3_ELV")],
                 row[F("NH3_ELV")], row[F("NH4_ELV")], row[F("NO2_ELV")]>>)
    ELSE MaxOf(<<row[F("TP_ELV")], row[F("PO4_ELV")]>>)

\* Variant of Sect4_Load that reads the measured flow, not the calculated one.
Sect4_LoadMeasuredFlow(row) ==
    Mul(Mul(Mul(row[F("Sect4_ELV")], Rat(25, 100)), row[F("Flow__m3_d")]), Rat(365, 1000))

\* "!Sect4_ELV! * 0.25 * !Sect4_Flow! * 0.365"
Sect4_Load(row) ==
    Mul(Mul(Mul(row[F("Sect4_ELV")], Rat(25, 100)), row[F("Sect4_Flow")]), Rat(365, 1000))

\* "!T{}_SWO!".format(nutrient)
CSOWast2calc(nut, row) == row[<<"T", nut, "_SWO">>]

\* "!PointT{}!".format(nutrient)
AggWast2calc(nut, row) == row[<<"PointT", nut>>]

\* Variant of factor_PE_calc that returns the larger of the two estimates.
factor_PE_calc_max(aer14, lema) == IF Gt(aer14, lema) THEN aer14 ELSE lema

\* def factor(aer14, lema) of PE_calc
factor_PE_calc(aer14, lema) == IF Gt(aer14, Num(1)) THEN aer14 ELSE lema

\* .format(raw, prelim, primary, second, tertN, tertNP, tertP, second, primary):
\* the nine literals of the code block of Treat_Fact, in the order pasted.
TreatFactLiterals(fs) ==
    <<FormatFloat(fs.raw), FormatFloat(fs.prelim), FormatFloat(fs.primary),
      FormatFloat(fs.second), FormatFloat(fs.tertN), FormatFloat(fs.tertNP),
      FormatFloat(fs.tertP), FormatFloat(fs.second), FormatFloat(fs.primary)>>

\* Variant of factor_Treat_Fact without the branch for 'Secondary'.
factor_Treat_Fact_NoSecondary(treatment, lits) ==
    IF treatment = "0 - No Treatment" THEN EvalLiteral(lits[1])
    ELSE IF treatment = "0 - Preliminary Treatment" THEN EvalLiteral(lits[2])
    ELSE IF treatment = "1 - Primary Treatment" THEN EvalLiteral(lits[3])
    ELSE IF treatment = "2 - Secondary Treatment" THEN EvalLiteral(lits[4])
    ELSE IF treatment = "3N - Tertiary N Removal" THEN EvalLiteral(lits[5])
    ELSE IF treatment = "3NP - Tertiary N&P Removal" THEN EvalLiteral(lits[6])
    ELSE IF treatment = "3P - Tertiary P Removal" THEN EvalLiteral(lits[7])
    ELSE EvalLiteral(lits[9])

\* def factor(treatment) of Treat_Fact, with the literals lits pasted in
factor_Treat_Fact(treatment, lits) ==
    IF treatment = "0 - No Treatment" THEN EvalLiteral(lits[1])
    ELSE IF treatment = "0 - Preliminary Treatment" THEN EvalLiteral(lits[2])
    ELSE IF treatment = "1 - Primary Treatment" THEN EvalLiteral(lits[3])
    ELSE IF treatment = "2 - Secondary Treatment" THEN EvalLiteral(lits[4])
    ELSE IF treatment = "3N - Tertiary N Removal" THEN EvalLiteral(lits[5])
    ELSE IF treatment = "3NP - Tertiary N&P Removal" THEN EvalLiteral(lits[6])
    ELSE IF treatment = "3P - Tertiary P Removal" THEN EvalLiteral(lits[7])
    ELSE IF treatment = "Secondary" THEN EvalLiteral(lits[8])
    ELSE EvalLiteral(lits[9])

\* Variant of value_PEqWast1calc whose threshold includes 1.
value_PEqWast1calc_Geq(wwtp_aer, pe_calc, treat_fact, lit) ==
    IF ~Lt(wwtp_aer, Num(1)) THEN Num(0)
    ELSE Mul(Mul(pe_calc, treat_fact), Div(Mul(EvalLiteral(lit), Num(365)), Num(1000)))

\* def value(wwtp_aer, pe_calc, treat_fact) of PEqWast1calc, POPfactor pasted in
value_PEqWast1calc(wwtp_aer, pe_calc, treat_fact, lit) ==
    IF Gt(wwtp_aer, Num(1)) THEN Num(0)
    ELSE Mul(Mul(pe_calc, treat_fact), Div(Mul(EvalLiteral(lit), Num(365)), Num(1000)))

\* def value(swo_aer, pe, loss_perce) of PEqSWOWast1calc, POPfactor pasted in
value_PEqSWOWast1calc(swo_aer, pe, loss_perce, lit) ==
    IF Lt(swo_aer, Rat(1, 10))
    THEN Mul(Sub(Div(Mul(pe, Div(Mul(EvalLiteral(lit), Num(365)), Num(1000))), Num(1)),
                 loss_perce),
             loss_perce)
    ELSE Num(0)

\* '{}_factors'.format(nutrient)
FactorsKey(nut) == <<nut, "_factors">>

\* raw, prelim, ... = None, None, ...
NoFactors ==
    [raw |-> NoneVal, prelim |-> NoneVal, primary |-> NoneVal, second |-> NoneVal,
     tertN |-> NoneVal, tertNP |-> NoneVal, tertP |-> NoneVal, POPfactor |-> NoneVal]

\* raw = float(row.getValue('raw')) ... POPfactor = float(row.getValue('POPfactor'))
FactorsOf(row) ==
    [raw |-> row.raw, prelim |-> row.prelim, primary |-> row.primary,
     second |-> row.second, tertN |-> row.tertN, tertNP |-> row.tertNP,
     tertP |-> row.tertP, POPfactor |-> row.POPfactor]

(* ------------------------------------------------------------------ *)
(* The order of the statements of the geoprocessing functions           *)
(* ------------------------------------------------------------------ *)

IndustryV2Steps ==
    <<"Intersect_ipc", "AddField_IPPC_calc", "CalculateField_IPPC_calc",
      "Intersect_sect4", "AddField_Sect4_Flow", "CalculateField_Sect4_Flow",
      "AddField_Sect4_ELV", "CalculateField_Sect4_ELV",
      "AddField_Sect4_Load", "CalculateField_Sect4_Load", "return">>

WastewaterV2Steps ==
    <<"SpatialJoin_agglo", "AddField_CSOWast2calc", "CalculateField_CSOWast2calc",
      "AddField_AggWast2calc", "CalculateField_AggWast2calc", "return">>

\* Variant of WastewaterV1Steps with DeleteIdentical after the first AddField.
WastewaterV1StepsLateDelete ==
    <<"SpatialJoin_wwtp", "AddField_PE_calc", "DeleteIdentical_wwtp",
      "CalculateField_PE_calc",
      "SearchCursor", "scan", "check_found",
      "AddField_Treat_Fact", "CalculateField_Treat_Fact",
      "AddField_PEqWast1calc", "CalculateField_PEqWast1calc",
      "AddField_PEqSWOWast1calc", "CalculateField_PEqSWOWast1calc",
      "AddField_AERWast1calc", "CalculateField_AERWast1calc",
      "AddField_AERSWOWast1calc", "CalculateField_AERSWOWast1calc", "return">>

WastewaterV1Steps ==
    <<"SpatialJoin_wwtp", "DeleteIdentical_wwtp",
      "AddField_PE_calc", "CalculateField_PE_calc",
      "SearchCursor", "scan", "check_found",
      "AddField_Treat_Fact", "CalculateField_Treat_Fact",
      "AddField_PEqWast1calc", "CalculateField_PEqWast1calc",
      "AddField_PEqSWOWast1calc", "CalculateField_PEqSWOWast1calc",
      "AddField_AERWast1calc", "CalculateField_AERWast1calc",
      "AddField_AERSWOWast1calc", "CalculateField_AERSWOWast1calc", "return">>

Tools == {"IndustryV2", "WastewaterV2", "WastewaterV1"}

StepsOf(t) ==
    IF t = "IndustryV2" THEN IndustryV2Steps
    ELSE IF t = "WastewaterV2" THEN WastewaterV2Steps
    ELSE WastewaterV1Steps

\* The statement that follows statement `label` in the function of tool t.
After(t, label) ==
    LET steps == StepsOf(t)
        i     == CHOOSE k \in 1 .. Len(steps) : steps[k] = label
    IN  steps[i + 1]

(* ------------------------------------------------------------------ *)
(* State                                                                *)
(* ------------------------------------------------------------------ *)

VARIABLES
    tool,             \* the tool that runs
    entry,            \* "execute", or "direct": the geoprocessing function is called
    selection,        \* the selection parameter of execute
    pc,               \* the statement to run next
    nutrient,         \* the parameter's text, then the code 'N' or 'P'
    location,         \* path of the location of interest
    in_factors_wwtp,  \* path of the factor table (WastewaterV1)
    out_ipc, out_sect4, out_agglo, out_wwtp,   \* output paths (optional strings)
    calls,            \* the vendor calls made so far, in order
    gdb,              \* the feature classes written: path -> rows
    table,            \* the rows the SearchCursor reads
    cur,              \* index of the row the cursor is at
    factors,          \* raw, prelim, primary, second, tertN, tertNP, tertP, POPfactor
    found,            \* the flag of the lookup
    error             \* "" or the exception that ended the run

outs == <<out_ipc, out_sect4, out_agglo, out_wwtp>>

lookup == <<table, cur, factors, found>>

inputs == <<tool, entry, selection>>

vars == <<tool, entry, selection, pc, nutrient, location, in_factors_wwtp,
          out_ipc, out_sect4, out_agglo, out_wwtp, calls, gdb, table, cur,
          factors, found, error>>

EmptyGdb == [q \in {} |-> <<>>]

\* What every run starts with, whatever its entry.
InitCommon ==
    /\ tool \in Tools
    /\ calls = <<>>
    /\ gdb = EmptyGdb
    /\ table = <<>>
    /\ cur = 0
    /\ factors = NoFactors
    /\ found = FALSE
    /\ error = ""

\* execute(parameters, messages): the parameters as the toolbox hands them
\* over; nothing of the geoprocessing function is set yet.
InitExecute ==
    /\ entry = "execute"
    /\ pc = "execute"
    /\ selection \in Selections
    /\ nutrient \in NutrientChoices
    /\ location = <<>>
    /\ in_factors_wwtp = <<>>
    /\ out_ipc = NoneStr /\ out_sect4 = NoneStr
    /\ out_agglo = NoneStr /\ out_wwtp = NoneStr

\* A direct call of the geoprocessing function with its documented arguments
\* and, optionally, output paths.
InitDirect ==
    /\ entry = "direct"
    /\ pc = StepsOf(tool)[1]
    /\ selection = NoneStr
    /\ nutrient \in {"N", "P"}
    /\ location = Region
    /\ in_factors_wwtp \in (IF tool = "WastewaterV1" THEN {InFactorsN, InFactorsP} ELSE {<<>>})
    /\ out_ipc \in (IF tool = "IndustryV2" THEN OutChoices("IPC") ELSE {NoneStr})
    /\ out_sect4 \in (IF tool = "IndustryV2" THEN OutChoices("Sect4") ELSE {NoneStr})
    /\ out_agglo \in (IF tool = "WastewaterV2" THEN OutChoices("Agglo") ELSE {NoneStr})
    /\ out_wwtp \in (IF tool = "WastewaterV1" THEN OutChoices("Wwtp") ELSE {NoneStr})

Init == InitCommon /\ (InitExecute \/ InitDirect)

(* ------------------------------------------------------------------ *)
(* execute                                                              *)
(* ------------------------------------------------------------------ *)

\* The part of execute the three tools share: the nutrient code, then the
\* location, with Select_analysis when a selection is requested.
ExecuteCommon ==
    /\ pc = "execute"
    /\ nutrient' = NutrientCode(nutrient)
    /\ IF SelectionRequested(selection)
       THEN /\ location' = SelectedRegionPath(OutGdb, ProjectName)
            /\ calls' = Append(calls, Call("Select", <<Region>>, location', <<>>))
            /\ gdb' = Put(gdb, location', SelectRows(RegionFeatures, selection.val))
       ELSE /\ location' = Region
            /\ UNCHANGED <<calls, gdb>>
    /\ pc' = StepsOf(tool)[1]
    /\ UNCHANGED <<inputs, outs, lookup, error>>

IndustryV2Execute ==
    /\ tool = "IndustryV2"
    /\ ExecuteCommon
    /\ UNCHANGED in_factors_wwtp

WastewaterV2Execute ==
    /\ tool = "WastewaterV2"
    /\ ExecuteCommon
    /\ UNCHANGED in_factors_wwtp

\* in_factors_wwtp = in_factors_wwtp_n if nutrient == 'N' else in_factors_wwtp_p
WastewaterV1Execute ==
    /\ tool = "WastewaterV1"
    /\ ExecuteCommon
    /\ in_factors_wwtp' = IF nutrient' = "N" THEN InFactorsN ELSE InFactorsP

\* The geoprocessing function returns: to execute, or to its direct caller.
\* IndustryV2.execute ends there; the wastewater tools go on to clean up.
Return ==
    /\ pc = "return"
    /\ pc' = IF entry = "execute" /\ tool # "IndustryV2" THEN "cleanup" ELSE "done"
    /\ UNCHANGED <<inputs, nutrient, location, in_factors_wwtp, outs, calls, gdb,
                   lookup, error>>

\* Variant of Cleanup that deletes the location whether or not it was selected.
CleanupAlways ==
    /\ pc = "cleanup"
    /\ calls' = Append(calls, [op |-> "Delete", src |-> <<>>, fc |-> location, field |-> <<>>])
    /\ gdb' = [q \in DOMAIN gdb \ {location} |-> gdb[q]]
    /\ pc' = "done"
    /\ UNCHANGED <<tool, entry, selection, nutrient, location, in_factors_wwtp,
                   out_ipc, out_sect4, out_agglo, out_wwtp, table, cur, factors,
                   found, error>>

\* if selection: arcpy.Delete_management(location)
Cleanup ==
    /\ pc = "cleanup"
    /\ IF SelectionRequested(selection)
       THEN /\ calls' = Append(calls, Call("Delete", <<>>, location, <<>>))
            /\ gdb' = Remove(gdb, location)
       ELSE UNCHANGED <<calls, gdb>>
    /\ pc' = "done"
    /\ UNCHANGED <<inputs, nutrient, location, in_factors_wwtp, outs, lookup, error>>

(* ------------------------------------------------------------------ *)
(* Steps shared by the geoprocessing functions                          *)
(* ------------------------------------------------------------------ *)

\* arcpy.AddField_management(fc, field, "DOUBLE", ...)
AddField(label, fc, field) ==
    /\ pc = label
    /\ gdb' = Put(gdb, fc, AddFieldRows(gdb[fc], field))
    /\ calls' = Append(calls, Call("AddField", <<>>, fc, field))
    /\ pc' = After(tool, label)
    /\ UNCHANGED <<inputs, nutrient, location, in_factors_wwtp, outs, lookup, error>>

\* arcpy.CalculateField_management(fc, field, expression, ...)
\* vals[i] is the value of the expression for row i.
CalculateField(label, fc, field, vals) ==
    /\ pc = label
    /\ gdb' = Put(gdb, fc, CalculateRows(gdb[fc], field, vals))
    /\ calls' = Append(calls, Call("CalculateField", <<>>, fc, field))
    /\ pc' = After(tool, label)
    /\ UNCHANGED <<inputs, nutrient, location, in_factors_wwtp, outs, lookup, error>>

(* ------------------------------------------------------------------ *)
(* industry_v2_geoprocessing                                            *)
(* ------------------------------------------------------------------ *)

IntersectIpc ==
    /\ pc = "Intersect_ipc"
    /\ out_ipc' = OutputPath(out_ipc, OutGdb, ProjectName, nutrient, "_IndustryIPC")
    /\ \E rows \in Matched(IpcFeatures) : gdb' = Put(gdb, out_ipc'.val, rows)
    /\ calls' = Append(calls, Call("Intersect", <<location, InIpc>>, out_ipc'.val, <<>>))
    /\ pc' = After(tool, "Intersect_ipc")
    /\ UNCHANGED <<inputs, nutrient, location, in_factors_wwtp, out_sect4, out_agglo,
                   out_wwtp, lookup, error>>

AddIPPCCalc == AddField("AddField_IPPC_calc", out_ipc.val, F("IPPC_calc"))

CalcIPPCCalc ==
    CalculateField("CalculateField_IPPC_calc", out_ipc.val, F("IPPC_calc"),
        [i \in 1 .. Len(gdb[out_ipc.val]) |->
            LET r == gdb[out_ipc.val][i]
            IN  IPPC_calc(nutrient, r)])

IntersectSect4 ==
    /\ pc = "Intersect_sect4"
    /\ out_sect4' = OutputPath(out_sect4, OutGdb, ProjectName, nutrient, "_IndustrySect4")
    /\ \E rows \in Matched(Sect4Features) : gdb' = Put(gdb, out_sect4'.val, rows)
    /\ calls' = Append(calls, Call("Intersect", <<location, InSect4>>, out_sect4'.val, <<>>))
    /\ pc' = After(tool, "Intersect_sect4")
    /\ UNCHANGED <<inputs, nutrient, location, in_factors_wwtp, out_ipc, out_agglo,
                   out_wwtp, lookup, error>>

AddSect4Flow == AddField("AddField_Sect4_Flow", out_sect4.val, F("Sect4_Flow"))

CalcSect4Flow ==
    CalculateField("CalculateField_Sect4_Flow", out_sect4.val, F("Sect4_Flow"),
        [i \in 1 .. Len(gdb[out_sect4.val]) |->
            LET r == gdb[out_sect4.val][i]
            IN  Sect4_Flow(r)])

AddSect4ELV == AddField("AddField_Sect4_ELV", out_sect4.val, F("Sect4_ELV"))

CalcSect4ELV ==
    CalculateField("CalculateField_Sect4_ELV", out_sect4.val, F("Sect4_ELV"),
        [i \in 1 .. Len(gdb[out_sect4.val]) |->
            LET r == gdb[out_sect4.val][i]
            IN  Sect4_ELV(nutrient, r)])

AddSect4Load == AddField("AddField_Sect4_Load", out_sect4.val, F("Sect4_Load"))

CalcSect4Load ==
    CalculateField("CalculateField_Sect4_Load", out_sect4.val, F("Sect4_Load"),
        [i \in 1 .. Len(gdb[out_sect4.val]) |->
            LET r == gdb[out_sect4.val][i]
            IN  Sect4_Load(r)])

(* ------------------------------------------------------------------ *)
(* wastewater_v2_geoprocessing                                          *)
(* ------------------------------------------------------------------ *)

SpatialJoinAgglo ==
    /\ pc = "SpatialJoin_agglo"
    /\ out_agglo' = OutputPath(out_agglo, OutGdb, ProjectName, nutrient, "_Wastewater")
    /\ \E rows \in Matched(AggloFeatures) : gdb' = Put(gdb, out_agglo'.val, rows)
    /\ calls' = Append(calls, Call("SpatialJoin", <<InAgglo, location>>, out_agglo'.val, <<>>))
    /\ pc' = After(tool, "SpatialJoin_agglo")
    /\ UNCHANGED <<inputs, nutrient, location, in_factors_wwtp, out_ipc, out_sect4,
                   out_wwtp, lookup, error>>

AddCSOWast2calc == AddField("AddField_CSOWast2calc", out_agglo.val, F("CSOWast2calc"))

CalcCSOWast2calc ==
    CalculateField("CalculateField_CSOWast2calc", out_agglo.val, F("CSOWast2calc"),
        [i \in 1 .. Len(gdb[out_agglo.val]) |->
            LET r == gdb[out_agglo.val][i]
            IN  CSOWast2calc(nutrient, r)])

AddAggWast2calc == AddField("AddField_AggWast2calc", out_agglo.val, F("AggWast2calc"))

CalcAggWast2calc ==
    CalculateField("CalculateField_AggWast2calc", out_agglo.val, F("AggWast2calc"),
        [i \in 1 .. Len(gdb[out_agglo.val]) |->
            LET r == gdb[out_agglo.val][i]
            IN  AggWast2calc(nutrient, r)])

(* ------------------------------------------------------------------ *)
(* wastewater_v1_geoprocessing                                          *)
(* ------------------------------------------------------------------ *)

SpatialJoinWwtp ==
    /\ pc = "SpatialJoin_wwtp"
    /\ out_wwtp' = OutputPath(out_wwtp, OutGdb, ProjectName, nutrient, "_Wastewater")
    /\ \E rows \in Matched(WwtpFeatures) : gdb' = Put(gdb, out_wwtp'.val, rows)
    /\ calls' = Append(calls, Call("SpatialJoin", <<InWwtp, location>>, out_wwtp'.val, <<>>))
    /\ pc' = After(tool, "SpatialJoin_wwtp")
    /\ UNCHANGED <<inputs, nutrient, location, in_factors_wwtp, out_ipc, out_sect4,
                   out_agglo, lookup, error>>

DeleteIdenticalWwtp ==
    /\ pc = "DeleteIdentical_wwtp"
    /\ gdb' = Put(gdb, out_wwtp.val, DeleteIdenticalRows(gdb[out_wwtp.val], F("RegCD")))
    /\ calls' = Append(calls, Call("DeleteIdentical", <<>>, out_wwtp.val, F("RegCD")))
    /\ pc' = After(tool, "DeleteIdentical_wwtp")
    /\ UNCHANGED <<inputs, nutrient, location, in_factors_wwtp, outs, lookup, error>>

AddPECalc == AddField("AddField_PE_calc", out_wwtp.val, F("PE_calc"))

CalcPECalc ==
    CalculateField("CalculateField_PE_calc", out_wwtp.val, F("PE_calc"),
        [i \in 1 .. Len(gdb[out_wwtp.val]) |->
            LET r == gdb[out_wwtp.val][i]
            IN  factor_PE_calc(r[F("AER14_PE")], r[F("LEMA_PE")])])

\* raw, ..., POPfactor = None, ...; found = False; the cursor is opened on
\* the factor table, whose rows are whatever the table holds.
SearchCursor ==
    /\ pc = "SearchCursor"
    /\ factors' = NoFactors
    /\ found' = FALSE
    /\ table' \in FactorTables
    /\ cur' = 1
    /\ pc' = After(tool, "SearchCursor")
    /\ UNCHANGED <<inputs, nutrient, location, in_factors_wwtp, outs, calls, gdb, error>>

\* Variant of ScanRow without the break: a matching row sets the factors and
\* the loop goes on.
ScanRowNoBreak ==
    /\ pc = "scan"
    /\ cur <= Len(table)
    /\ IF table[cur].FactorName = <<nutrient, "_factors">>
       THEN /\ factors' = [raw |-> table[cur].raw, prelim |-> table[cur].prelim,
                           primary |-> table[cur].primary, second |-> table[cur].second,
                           tertN |-> table[cur].tertN, tertNP |-> table[cur].tertNP,
                           tertP |-> table[cur].tertP, POPfactor |-> table[cur].POPfactor]
            /\ found' = TRUE
       ELSE UNCHANGED <<factors, found>>
    /\ cur' = cur + 1
    /\ UNCHANGED <<tool, entry, selection, pc, nutrient, location, in_factors_wwtp,
                   out_ipc, out_sect4, out_agglo, out_wwtp, calls, gdb, table, error>>

\* One pass of the for loop: a row whose FactorName matches sets the eight
\* factors and found, and breaks; any other row is passed over.
ScanRow ==
    /\ pc = "scan"
    /\ cur <= Len(table)
    /\ IF table[cur].FactorName = FactorsKey(nutrient)
       THEN /\ factors' = FactorsOf(table[cur])
            /\ found' = TRUE
            /\ pc' = After(tool, "scan")
            /\ UNCHANGED cur
       ELSE /\ cur' = cur + 1
            /\ UNCHANGED <<factors, found, pc>>
    /\ UNCHANGED <<inputs, nutrient, location, in_factors_wwtp, outs, calls, gdb,
                   table, error>>

\* The cursor is exhausted: the for loop ends without a break.
ScanEnd ==
    /\ pc = "scan"
    /\ cur > Len(table)
    /\ pc' = After(tool, "scan")
    /\ UNCHANGED <<inputs, nutrient, location, in_factors_wwtp, outs, calls, gdb,
                   lookup, error>>

\* Variant of MissingFactors that never raises.
MissingFactorsIgnored(fnd) == FALSE

\* if not found: raise Exception('Factors for {} are not available in {}')
\* The exception leaves the function and, uncaught, execute.
MissingFactors(fnd) == ~fnd

CheckFound ==
    /\ pc = "check_found"
    /\ IF MissingFactors(found)
       THEN /\ error' = "Factors not available"
            /\ pc' = "raised"
       ELSE /\ pc' = After(tool, "check_found")
            /\ UNCHANGED error
    /\ UNCHANGED <<inputs, nutrient, location, in_factors_wwtp, outs, calls, gdb, lookup>>

AddTreatFact == AddField("AddField_Treat_Fact", out_wwtp.val, F("Treat_Fact"))

CalcTreatFact ==
    CalculateField("CalculateField_Treat_Fact", out_wwtp.val, F("Treat_Fact"),
        [i \in 1 .. Len(gdb[out_wwtp.val]) |->
            LET r == gdb[out_wwtp.val][i]
            IN  factor_Treat_Fact(r[F("TreatmentL")], TreatFactLiterals(factors))])

AddPEqWast1calc == AddField("AddField_PEqWast1calc", out_wwtp.val, F("PEqWast1calc"))

CalcPEqWast1calc ==
    CalculateField("CalculateField_PEqWast1calc", out_wwtp.val, F("PEqWast1calc"),
        [i \in 1 .. Len(gdb[out_wwtp.val]) |->
            LET r == gdb[out_wwtp.val][i]
            IN  value_PEqWast1calc(r[<<nutrient, "_WWTP_AER">>], r[F("PE_calc")], r[F("Treat_Fact")], FormatFloat(factors.POPfactor))])

AddPEqSWOWast1calc == AddField("AddField_PEqSWOWast1calc", out_wwtp.val, F("PEqSWOWast1calc"))

CalcPEqSWOWast1calc ==
    CalculateField("CalculateField_PEqSWOWast1calc", out_wwtp.val, F("PEqSWOWast1calc"),
        [i \in 1 .. Len(gdb[out_wwtp.val]) |->
            LET r == gdb[out_wwtp.val][i]
            IN  value_PEqSWOWast1calc(r[<<nutrient, "_SWO_AER">>], r[F("PE")], r[F("LOSS_perce")], FormatFloat(factors.POPfactor))])

AddAERWast1calc == AddField("AddField_AERWast1calc", out_wwtp.val, F("AERWast1calc"))

CalcAERWast1calc ==
    CalculateField("CalculateField_AERWast1calc", out_wwtp.val, F("AERWast1calc"),
        [i \in 1 .. Len(gdb[out_wwtp.val]) |->
            LET r == gdb[out_wwtp.val][i]
            IN  r[<<nutrient, "_WWTP_AER">>]])

AddAERSWOWast1calc == AddField("AddField_AERSWOWast1calc", out_wwtp.val, F("AERSWOWast1calc"))

CalcAERSWOWast1calc ==
    CalculateField("CalculateField_AERSWOWast1calc", out_wwtp.val, F("AERSWOWast1calc"),
        [i \in 1 .. Len(gdb[out_wwtp.val]) |->
            LET r == gdb[out_wwtp.val][i]
            IN  r[<<nutrient, "_SWO_AER">>]])

(* ------------------------------------------------------------------ *)
(* Specification                                                        *)
(* ------------------------------------------------------------------ *)

Next ==
    \/ IndustryV2Execute
    \/ WastewaterV2Execute
    \/ WastewaterV1Execute
    \/ IntersectIpc
    \/ AddIPPCCalc
    \/ CalcIPPCCalc
    \/ IntersectSect4
    \/ AddSect4Flow
    \/ CalcSect4Flow
    \/ AddSect4ELV
    \/ CalcSect4ELV
    \/ AddSect4Load
    \/ CalcSect4Load
    \/ SpatialJoinAgglo
    \/ AddCSOWast2calc
    \/ CalcCSOWast2calc
    \/ AddAggWast2calc
    \/ CalcAggWast2calc
    \/ SpatialJoinWwtp
    \/ DeleteIdenticalWwtp
    \/ AddPECalc
    \/ CalcPECalc
    \/ SearchCursor
    \/ ScanRow
    \/ ScanEnd
    \/ CheckFound
    \/ AddTreatFact
    \/ CalcTreatFact
    \/ AddPEqWast1calc
    \/ CalcPEqWast1calc
    \/ AddPEqSWOWast1calc
    \/ CalcPEqSWOWast1calc
    \/ AddAERWast1calc
    \/ CalcAERWast1calc
    \/ AddAERSWOWast1calc
    \/ CalcAERSWOWast1calc
    \/ Return
    \/ Cleanup

Spec == Init /\ [][Next]_vars

(* ------------------------------------------------------------------ *)
(* Properties                                                           *)
(* ------------------------------------------------------------------ *)

\* The rows of the feature class at an output path, once it is written.
RowsAt(out) ==
    IF out.some /\ out.val \in DOMAIN gdb THEN gdb[out.val] ELSE <<>>

\* CalculateField has run for the field of the feature class at the path.
WasCalculated(out, field) ==
    /\ out.some
    /\ \E i \in 1 .. Len(calls) :
         /\ calls[i].op = "CalculateField"
         /\ calls[i].fc = out.val
         /\ calls[i].field = field

\* The table the cursor reads has a row for the nutrient.
HasFactorsRow ==
    \E k \in 1 .. Len(table) : table[k].FactorName = <<nutrient, "_factors">>

\* The first such row, in cursor order.
FirstFactorsRow ==
    CHOOSE k \in 1 .. Len(table) :
        /\ table[k].FactorName = <<nutrient, "_factors">>
        /\ \A j \in 1 .. k - 1 : table[j].FactorName # <<nutrient, "_factors">>

\* The lookup of wastewater_v1_geoprocessing is over (it found or it raised).
LookupOver ==
    /\ tool = "WastewaterV1"
    /\ pc \notin {"execute", "SpatialJoin_wwtp", "DeleteIdentical_wwtp", "AddField_PE_calc",
                  "CalculateField_PE_calc", "SearchCursor", "scan", "check_found"}

LoadFields ==
    {<<"Treat_Fact">>, <<"PEqWast1calc">>, <<"PEqSWOWast1calc">>, <<"AERWast1calc">>,
     <<"AERSWOWast1calc">>}

C2_PECalcIsLarger ==
    WasCalculated(out_wwtp, <<"PE_calc">>) =>
        \A i \in 1 .. Len(RowsAt(out_wwtp)) :
            LET r == RowsAt(out_wwtp)[i]
                a == r[<<"AER14_PE">>]
                l == r[<<"LEMA_PE">>]
            IN  r[<<"PE_calc">>] = IF a.n * l.d >= l.n * a.d THEN a ELSE l

\* C2 as amended: PE_calc of every row is AER14_PE when AER14_PE is greater
\* than 1, and LEMA_PE otherwise.
C2_PECalcPrefersAER ==
    WasCalculated(out_wwtp, <<"PE_calc">>) =>
        \A i \in 1 .. Len(RowsAt(out_wwtp)) :
            LET r == RowsAt(out_wwtp)[i]
                a == r[<<"AER14_PE">>]
                l == r[<<"LEMA_PE">>]
            IN  r[<<"PE_calc">>] = IF a.n > a.d THEN a ELSE l

C2_Witness ==
    /\ WasCalculated(out_wwtp, <<"PE_calc">>)
    /\ \E i \in 1 .. Len(RowsAt(out_wwtp)) :
          LET r == RowsAt(out_wwtp)[i]
          IN  /\ r[<<"AER14_PE">>] = [n |-> 2, d |-> 1]
              /\ r[<<"LEMA_PE">>] = [n |-> 5, d |-> 1]
              /\ r[<<"PE_calc">>] = [n |-> 2, d |-> 1]

\* C3: Sect4_Load of every row is Sect4_ELV * 0.25 * Sect4_Flow * 0.365, that
\* is Sect4_ELV * Sect4_Flow * 73 / 800, of the two fields the run calculated.
C3_Sect4Load ==
    WasCalculated(out_sect4, <<"Sect4_Load">>) =>
        /\ WasCalculated(out_sect4, <<"Sect4_ELV">>)
        /\ WasCalculated(out_sect4, <<"Sect4_Flow">>)
        /\ \A i \in 1 .. Len(RowsAt(out_sect4)) :
              LET r == RowsAt(out_sect4)[i]
                  e == r[<<"Sect4_ELV">>]
                  f == r[<<"Sect4_Flow">>]
              IN  /\ e.d # 0 /\ f.d # 0
                  /\ r[<<"Sect4_Load">>] = Rat(e.n * f.n * 73, e.d * f.d * 800)

C3_Witness ==
    /\ WasCalculated(out_sect4, <<"Sect4_Load">>)
    /\ \E i \in 1 .. Len(RowsAt(out_sect4)) :
          LET r == RowsAt(out_sect4)[i]
          IN  /\ r[<<"Flow__m3_d">>].n = 0
              /\ r[<<"Sect4_Load">>].n > 0

\* The factor the claim C4 names for a treatment string, from a factor row.
C4_FactorFor(treatment, frow) ==
    CASE treatment = "0 - No Treatment"           -> frow.raw
      [] treatment = "0 - Preliminary Treatment"  -> frow.prelim
      [] treatment = "1 - Primary Treatment"      -> frow.primary
      [] treatment = "2 - Secondary Treatment"    -> frow.second
      [] treatment = "Secondary"                  -> frow.second
      [] treatment = "3N - Tertiary N Removal"    -> frow.tertN
      [] treatment = "3NP - Tertiary N&P Removal" -> frow.tertNP
      [] treatment = "3P - Tertiary P Removal"    -> frow.tertP
      [] OTHER                                    -> frow.primary

\* C4: Treat_Fact of every row is the factor of the row's TreatmentL in the
\* matched factor row: raw, prelim, primary, second (also for 'Secondary'),
\* tertN, tertNP, tertP, and primary for every other string.
C4_TreatFact ==
    WasCalculated(out_wwtp, <<"Treat_Fact">>) =>
        /\ HasFactorsRow
        /\ \A i \in 1 .. Len(RowsAt(out_wwtp)) :
              LET r == RowsAt(out_wwtp)[i]
              IN  r[<<"Treat_Fact">>] = C4_FactorFor(r[<<"TreatmentL">>], table[FirstFactorsRow])

C4_Witness ==
    /\ WasCalculated(out_wwtp, <<"Treat_Fact">>)
    /\ \E i, j \in 1 .. Len(RowsAt(out_wwtp)) :
          /\ RowsAt(out_wwtp)[i][<<"TreatmentL">>] = "Secondary"
          /\ RowsAt(out_wwtp)[j][<<"TreatmentL">>] = "4 - Unknown"
          /\ RowsAt(out_wwtp)[i][<<"Treat_Fact">>] # RowsAt(out_wwtp)[j][<<"Treat_Fact">>]

\* The calls that create or change an output, as (operation, field) pairs.
C5_Trace ==
    LET kept == SelectSeq(calls, LAMBDA c : c.op \notin {"Select", "Delete"})
    IN  [i \in 1 .. Len(kept) |-> <<kept[i].op, kept[i].field>>]

\* The fixed order of each geoprocessing function.
C5_Order ==
    IF tool = "IndustryV2" THEN
        <<<<"Intersect", <<>>>>,
          <<"AddField", <<"IPPC_calc">>>>, <<"CalculateField", <<"IPPC_calc">>>>,
          <<"Intersect", <<>>>>,
          <<"AddField", <<"Sect4_Flow">>>>, <<"CalculateField", <<"Sect4_Flow">>>>,
          <<"AddField", <<"Sect4_ELV">>>>, <<"CalculateField", <<"Sect4_ELV">>>>,
          <<"AddField", <<"Sect4_Load">>>>, <<"CalculateField", <<"Sect4_Load">>>>>>
    ELSE IF tool = "WastewaterV2" THEN
        <<<<"SpatialJoin", <<>>>>,
          <<"AddField", <<"CSOWast2calc">>>>, <<"CalculateField", <<"CSOWast2calc">>>>,
          <<"AddField", <<"AggWast2calc">>>>, <<"CalculateField", <<"AggWast2calc">>>>>>
    ELSE
        <<<<"SpatialJoin", <<>>>>, <<"DeleteIdentical", <<"RegCD">>>>,
          <<"AddField", <<"PE_calc">>>>, <<"CalculateField", <<"PE_calc">>>>,
          <<"AddField", <<"Treat_Fact">>>>, <<"CalculateField", <<"Treat_Fact">>>>,
          <<"AddField", <<"PEqWast1calc">>>>, <<"CalculateField", <<"PEqWast1calc">>>>,
          <<"AddField", <<"PEqSWOWast1calc">>>>, <<"CalculateField", <<"PEqSWOWast1calc">>>>,
          <<"AddField", <<"AERWast1calc">>>>, <<"CalculateField", <<"AERWast1calc">>>>,
          <<"AddField", <<"AERSWOWast1calc">>>>, <<"CalculateField", <<"AERSWOWast1calc">>>>>>

\* Call i was preceded by a call of operation op on the same feature class
\* (and, where a field is given, on that field).
C5_Before(i, ops, field) ==
    \E j \in 1 .. i - 1 :
        /\ calls[j].op \in ops
        /\ calls[j].fc = calls[i].fc
        /\ field # <<>> => calls[j].field = field

\* C5: the vendor operations run in a fixed order that meets every
\* dependency: the output is created before any AddField, CalculateField or
\* DeleteIdentical on it, in WastewaterV1 DeleteIdentical comes after the
\* join and before the first AddField, each CalculateField follows the
\* AddField of its field, and PE_calc and Treat_Fact are calculated before
\* PEqWast1calc, Sect4_ELV and Sect4_Flow before Sect4_Load.
C5_FixedOrder ==
    /\ Len(C5_Trace) <= Len(C5_Order)
    /\ C5_Trace = SubSeq(C5_Order, 1, Len(C5_Trace))
    /\ \A i \in 1 .. Len(calls) :
          /\ calls[i].op \in {"AddField", "CalculateField", "DeleteIdentical"}
                => C5_Before(i, {"Intersect", "SpatialJoin"}, <<>>)
          /\ calls[i].op = "CalculateField"
                => C5_Before(i, {"AddField"}, calls[i].field)
          /\ (tool = "WastewaterV1" /\ calls[i].op = "AddField")
                => C5_Before(i, {"DeleteIdentical"}, <<>>)
          /\ (calls[i].op = "CalculateField" /\ calls[i].field = <<"PEqWast1calc">>)
                => /\ C5_Before(i, {"CalculateField"}, <<"PE_calc">>)
                   /\ C5_Before(i, {"CalculateField"}, <<"Treat_Fact">>)
          /\ (calls[i].op = "CalculateField" /\ calls[i].field = <<"Sect4_Load">>)
                => /\ C5_Before(i, {"CalculateField"}, <<"Sect4_ELV">>)
                   /\ C5_Before(i, {"CalculateField"}, <<"Sect4_Flow">>)

C5_Witness ==
    /\ tool = "WastewaterV1"
    /\ pc = "done"
    /\ Len(C5_Trace) = Len(C5_Order)
    /\ Len(RowsAt(out_wwtp)) >= 1

\* An output path was supplied by the caller.
C6_Given(out) == out.some /\ out.val # <<>>

\* out_gdb + separator + project_name + '_' + nutrient + suffix
C6_Default(suffix) == OutGdb \o <<"/">> \o ProjectName \o <<"_", nutrient, suffix>>

\* The path the step that leaves statement `label` writes its output to.
C6_Writes(label, out, suffix) ==
    (pc = label /\ pc' # label) =>
        /\ calls' = Append(calls, calls'[Len(calls')])
        /\ calls'[Len(calls')].fc = IF C6_Given(out) THEN out.val ELSE C6_Default(suffix)

\* C6: every geoprocessing function writes to the output path its caller
\* supplied, if any, and otherwise to out_gdb/<project_name>_<nutrient>_<suffix>
\* with suffix IndustryIPC, IndustrySect4 or Wastewater.
C6_OutputPath ==
    [][/\ C6_Writes("Intersect_ipc", out_ipc, "_IndustryIPC")
       /\ C6_Writes("Intersect_sect4", out_sect4, "_IndustrySect4")
       /\ C6_Writes("SpatialJoin_agglo", out_agglo, "_Wastewater")
       /\ C6_Writes("SpatialJoin_wwtp", out_wwtp, "_Wastewater")]_vars

C6_Witness ==
    /\ \E i \in 1 .. Len(calls) :
          calls[i].op = "Intersect" /\ calls[i].fc = <<"custom.gdb", "/", "IPC">>
    /\ \E i \in 1 .. Len(calls) :
          /\ calls[i].op = "Intersect"
          /\ calls[i].fc = <<"output.gdb", "/", "proj", "_", "P", "_IndustrySect4">>

\* C7: execute invokes Select exactly when the selection is non-empty, once
\* and before the geoprocessing function, whose location is then
\* out_gdb/<project_name>_SelectedRegion; with an empty selection or None
\* there is no Select and the location is the region.
C7_Select ==
    LET selects == {i \in 1 .. Len(calls) : calls[i].op = "Select"}
    IN  /\ entry = "direct" => selects = {}
        /\ (entry = "execute" /\ pc = "execute") => selects = {}
        /\ (entry = "execute" /\ pc # "execute") =>
              /\ IF selection.some /\ selection.val # <<>>
                 THEN /\ selects = {1}
                      /\ calls[1].src = <<Region>>
                      /\ calls[1].fc = <<"output.gdb", "/", "proj", "_SelectedRegion">>
                      /\ location = calls[1].fc
                 ELSE /\ selects = {}
                      /\ location = Region
              /\ \A i \in 1 .. Len(calls) :
                    calls[i].op \in {"Intersect", "SpatialJoin"}
                       => \E k \in 1 .. Len(calls[i].src) : calls[i].src[k] = location

C7_Witness ==
    /\ entry = "execute"
    /\ selection.val # <<>>
    /\ \E i \in 2 .. Len(calls) : calls[i].op = "SpatialJoin"
    /\ calls[1].op = "Select"

\* C8: the nutrient code execute hands on is 'N' or 'P', 'N' for
\* 'Nitrogen (N)' and 'P' for 'Phosphorus (P)', and WastewaterV1 hands on the
\* nitrogen factor table exactly with 'N', the phosphorus one exactly with 'P'.
C8_NutrientCode ==
    [][pc = "execute" =>
          /\ nutrient' \in {"N", "P"}
          /\ nutrient = "Nitrogen (N)" => nutrient' = "N"
          /\ nutrient = "Phosphorus (P)" => nutrient' = "P"
          /\ tool = "WastewaterV1" =>
                /\ (in_factors_wwtp' = InFactorsN) <=> (nutrient' = "N")
                /\ (in_factors_wwtp' = InFactorsP) <=> (nutrient' = "P")]_vars

C8_Witness ==
    /\ tool = "WastewaterV1"
    /\ entry = "execute"
    /\ pc = "SpatialJoin_wwtp"
    /\ nutrient = "P"
    /\ in_factors_wwtp = InFactorsP

\* C9: the lookup stops at the first row, in cursor order, named
\* '<nutrient>_factors': the eight factors are those of that row, and no
\* later row, matching or not, changes them.
C9_FirstMatch ==
    tool = "WastewaterV1" =>
        IF HasFactorsRow
        THEN LET first == table[FirstFactorsRow]
             IN  /\ cur <= FirstFactorsRow
                 /\ (pc # "scan") => found
                 /\ found =>
                       /\ cur = FirstFactorsRow
                       /\ factors.raw = first.raw
                       /\ factors.prelim = first.prelim
                       /\ factors.primary = first.primary
                       /\ factors.second = first.second
                       /\ factors.tertN = first.tertN
                       /\ factors.tertNP = first.tertNP
                       /\ factors.tertP = first.tertP
                       /\ factors.POPfactor = first.POPfactor
        ELSE /\ ~found
             /\ \A f \in DOMAIN factors : factors[f].d = 0

C9_Witness ==
    /\ tool = "WastewaterV1"
    /\ pc = "done"
    /\ Len(table) >= 2
    /\ table[1].FactorName = <<nutrient, "_factors">>
    /\ table[2].FactorName = <<nutrient, "_factors">>
    /\ table[1].raw # table[2].raw

\* C10: PEqWast1calc of every row is 0 when the reported <nutrient>_WWTP_AER
\* is greater than 1 and PE_calc * Treat_Fact * (POPfactor * 365 / 1000)
\* otherwise; no row has an AERWast1calc greater than 1 together with a
\* non-zero PEqWast1calc.
C10_ReportedOrEstimate ==
    /\ WasCalculated(out_wwtp, <<"PEqWast1calc">>) =>
          /\ HasFactorsRow
          /\ \A i \in 1 .. Len(RowsAt(out_wwtp)) :
                LET r   == RowsAt(out_wwtp)[i]
                    aer == r[<<nutrient, "_WWTP_AER">>]
                    pe  == r[<<"PE_calc">>]
                    tf  == r[<<"Treat_Fact">>]
                    pop == table[FirstFactorsRow].POPfactor
                IN  r[<<"PEqWast1calc">>] =
                        IF aer.n > aer.d THEN [n |-> 0, d |-> 1]
                        ELSE Rat(pe.n * tf.n * pop.n * 365, pe.d * tf.d * pop.d * 1000)
    /\ WasCalculated(out_wwtp, <<"AERWast1calc">>) =>
          \A i \in 1 .. Len(RowsAt(out_wwtp)) :
              LET r == RowsAt(out_wwtp)[i]
              IN  /\ r[<<"AERWast1calc">>] = r[<<nutrient, "_WWTP_AER">>]
                  /\ ~(r[<<"AERWast1calc">>].n > r[<<"AERWast1calc">>].d
                       /\ r[<<"PEqWast1calc">>].n # 0)

C10_Witness ==
    /\ WasCalculated(out_wwtp, <<"AERWast1calc">>)
    /\ \E i, j \in 1 .. Len(RowsAt(out_wwtp)) :
          /\ RowsAt(out_wwtp)[i][<<"AERWast1calc">>].n > RowsAt(out_wwtp)[i][<<"AERWast1calc">>].d
          /\ RowsAt(out_wwtp)[i][<<"PEqWast1calc">>].n = 0
          /\ RowsAt(out_wwtp)[j][<<"AERWast1calc">>] = [n |-> 1, d |-> 1]
          /\ RowsAt(out_wwtp)[j][<<"PEqWast1calc">>].n > 0

\* The emission limit fields of a nutrient code.
C11_Limits(nut) ==
    IF nut = "N"
    THEN {<<"TON_ELV">>, <<"TN_ELV">>, <<"NO3_ELV">>, <<"NH3_ELV">>, <<"NH4_ELV">>,
          <<"NO2_ELV">>}
    ELSE {<<"TP_ELV">>, <<"PO4_ELV">>}

\* C11: Sect4_ELV of every row is the largest emission limit of the selected
\* nutrient only (six fields for 'N', two for 'P'): it is one of them and no
\* smaller than any of them, whatever the limits of the other nutrient are.
C11_Sect4ELV ==
    WasCalculated(out_sect4, <<"Sect4_ELV">>) =>
        /\ nutrient \in {"N", "P"}
        /\ \A i \in 1 .. Len(RowsAt(out_sect4)) :
              LET r == RowsAt(out_sect4)[i]
                  e == r[<<"Sect4_ELV">>]
              IN  /\ \E f \in C11_Limits(nutrient) : e = r[f]
                  /\ \A f \in C11_Limits(nutrient) : e.n * r[f].d >= r[f].n * e.d

\* An 'N' run with a row whose largest nitrogen limit is NH3_ELV and whose
\* phosphorus limit TP_ELV is larger than the result.
C11_Witness ==
    /\ WasCalculated(out_sect4, <<"Sect4_ELV">>)
    /\ nutrient = "N"
    /\ \E i \in 1 .. Len(RowsAt(out_sect4)) :
          LET r == RowsAt(out_sect4)[i]
          IN  /\ r[<<"Sect4_ELV">>] = r[<<"NH3_ELV">>]
              /\ r[<<"TP_ELV">>].n * r[<<"Sect4_ELV">>].d
                   > r[<<"Sect4_ELV">>].n * r[<<"TP_ELV">>].d

\* The datasets a run reads: the region, the discharge data, the factor tables.
C12_Inputs == {Region, InIpc, InSect4, InAgglo, InWwtp, InFactorsN, InFactorsP}

\* C12: no run changes or deletes an input dataset: every call writes to a
\* feature class that is no input; AddField, CalculateField and
\* DeleteIdentical act on an output created earlier in the run; Delete acts
\* only on <project_name>_SelectedRegion, after the Select of the same run
\* created it.
C12_InputsUntouched ==
    /\ DOMAIN gdb \cap C12_Inputs = {}
    /\ \A i \in 1 .. Len(calls) :
          /\ calls[i].fc \notin C12_Inputs
          /\ calls[i].op \in {"AddField", "CalculateField", "DeleteIdentical"} =>
                \E j \in 1 .. i - 1 :
                    /\ calls[j].op \in {"Intersect", "SpatialJoin"}
                    /\ calls[j].fc = calls[i].fc
          /\ calls[i].op = "Delete" =>
                /\ calls[i].fc = <<"output.gdb", "/", "proj", "_SelectedRegion">>
                /\ \E j \in 1 .. i - 1 :
                      calls[j].op = "Select" /\ calls[j].fc = calls[i].fc

C12_Witness ==
    /\ pc = "done"
    /\ \E i \in 1 .. Len(calls) : calls[i].op = "Delete"
    /\ \E i \in 1 .. Len(calls) : calls[i].op = "DeleteIdentical"

\* execute has ended: it returned, or the missing-factors error left it.
C13_Ended == entry = "execute" /\ pc \in {"done", "raised"}

\* C13: whenever execute created <project_name>_SelectedRegion, that feature
\* class is deleted by the time execute ends, for each of the three tools and
\* on every way of ending, the missing-factors error included.
C13_SelectedRegionDeleted ==
    (C13_Ended /\ \E i \in 1 .. Len(calls) : calls[i].op = "Select") =>
        /\ <<"output.gdb", "/", "proj", "_SelectedRegion">> \notin DOMAIN gdb
        /\ \E i \in 1 .. Len(calls) :
              /\ calls[i].op = "Delete"
              /\ calls[i].fc = <<"output.gdb", "/", "proj", "_SelectedRegion">>

====
